---- MODULE Spec2Model ----
(***************************************************************************)
(* Model of dagster's configured machinery                               *)
(* (dagster/core/definitions/config_mappable.py): ConfiguredMixin, the     *)
(* closure built by _get_wrapped_config_mapping_fn, apply_config_mapping,  *)
(* _name_for_configured_node and the module-level configured decorator.  *)
(*                                                                         *)
(* Python values are represented as follows.                               *)
(*   None            the empty tuple; an Optional argument that is present *)
(*                   is the one-element tuple Some(x)                      *)
(*   dict            a function from string keys to values                 *)
(*   int / str       a record [ty |-> "int" | "str", v |-> text]           *)
(*   a definition    a record of its fields, stored in the sequence defs *)
(*                   and referred to by its index                          *)
(*   a closure       the record of the variables it closes over            *)
(***************************************************************************)
EXTENDS Integers, Sequences, FiniteSets, TLC

VARIABLES
    defs,     \* every definition object built so far (immutable records)
    call,     \* the public call that is running or that ran last
    pc,       \* "idle" between calls, the position inside a running
              \* apply_config_mapping call, or "raised" once an exception has
              \* left a call: nothing catches it, so the program ends there
    cur,      \* the definition whose _configured_config_mapping_fn is executing
    cfg,      \* validated_and_resolved_config of the executing closure
    mapped,   \* mapped_config of the executing closure
    trace,    \* config_fn invocations and process_config calls, in order
    result    \* how the last call ended: returned value or raised error

vars == <<defs, call, pc, cur, cfg, mapped, trace, result>>

----------------------------------------------------------------------------
(* Bounds *)

\* definitions that configured may build on top of the initial ones
MaxConfigured == 2

\* longest list a repository construction function returns
MaxListLen == 3

----------------------------------------------------------------------------
(* Python values *)

None == <<>>
Some(x) == <<x>>
IsNone(x) == x = None
Unwrap(x) == x[1]

IntV(s) == [ty |-> "int", v |-> s]
StrV(s) == [ty |-> "str", v |-> s]

EmptyDict == <<>>
\* dict.get(key, default)
DictGet(d, key, default) == IF key \in DOMAIN d THEN d[key] ELSE default

\* Python truthiness of an Optional[str]
TruthyName(n) == ~IsNone(n) /\ Unwrap(n) # ""
\* Python truthiness of an Optional[dict]: None and {} are both falsy
TruthySchema(s) == ~IsNone(s) /\ DOMAIN Unwrap(s) # {}

\* every key that occurs in a schema or a config of the model, in the order
\* in which validation reports problems
FieldOrder == <<"bucket_prefix", "n">>

----------------------------------------------------------------------------
(* Inputs: user transformations, static configs, schemas, names, configs *)

\* @configured(...) def add_dev(cfg): return {"n": cfg["bucket_prefix"] + "-dev"}
add_dev(config) ==
    IF "bucket_prefix" \notin DOMAIN config
    THEN [raised |-> TRUE, exc |-> "KeyError"]
    ELSE IF config["bucket_prefix"].ty # "str"
    THEN [raised |-> TRUE, exc |-> "TypeError"]
    ELSE [raised |-> FALSE,
          value |-> [n |-> StrV(config["bucket_prefix"].v \o "-dev")]]

CallUserFunction(fn_name, config) ==
    CASE fn_name = "add_dev" -> add_dev(config)

AddDevFn == [callable |-> TRUE, fn_name |-> "add_dev"]
StaticConfig(d) == [callable |-> FALSE, value |-> d]

StaticAcme == StaticConfig([bucket_prefix |-> StrV("acme")])
StaticEmpty == StaticConfig(EmptyDict)
StaticOne == StaticConfig([n |-> IntV("1")])
PrefixSchema == Some([bucket_prefix |-> "str"])

Args(config_or_config_fn, config_schema, name) ==
    [config_or_config_fn |-> config_or_config_fn,
     config_schema |-> config_schema, name |-> name]

\* the arguments configured is called with: a callable and a static config
\* with each kind of schema (None, empty, with a field) and each kind of name
\* (None, empty, given)
ConfiguredArgs ==
    { Args(AddDevFn, PrefixSchema, None),
      Args(AddDevFn, None, Some("dev")),
      Args(AddDevFn, Some(EmptyDict), Some("")),
      Args(StaticAcme, None, Some("dev")),
      Args(StaticEmpty, None, Some("dev")),
      Args(StaticOne, None, Some("dev")),
      Args(StaticAcme, PrefixSchema, Some("dev")),
      Args(StaticEmpty, Some(EmptyDict), Some("dev")),
      Args(StaticAcme, Some(EmptyDict), None),
      Args(StaticAcme, None, None),
      Args(StaticEmpty, None, Some("")) }

RunConfigs ==
    { [config |-> [bucket_prefix |-> StrV("acme")]],
      [config |-> [bucket_prefix |-> IntV("1")]],
      EmptyDict }

\* callable(config_or_config_fn)
callable(config_or_config_fn) == config_or_config_fn.callable

----------------------------------------------------------------------------
(* Definitions on the heap *)

BaseInt ==
    [cls |-> "SolidDefinition", name |-> "base_int",
     config_schema |-> Some([n |-> "int"]),
     _configured_config_mapping_fn |-> None]

BaseStr ==
    [cls |-> "CompositeSolidDefinition", name |-> "base_str",
     config_schema |-> Some([n |-> "str"]),
     _configured_config_mapping_fn |-> None]

InitialDefs == <<BaseInt, BaseStr>>

DefIds == 1..Len(defs)

\* what configured can be handed: a definition, a CallableNode made by
\* aliasing or tagging a definition, or an object of an unrelated type
DefObj(i) == [kind |-> "ConfiguredMixin", id |-> i]
CallableNodeObj(i) == [kind |-> "CallableNode", id |-> i]
OtherObj == [kind |-> "PipelineDefinition", id |-> 0]

\* ConfiguredMixin.is_preconfigured
is_preconfigured(d) == ~IsNone(d._configured_config_mapping_fn)

----------------------------------------------------------------------------
(* Collaborators: schema validation, error boundary, check *)

\* EvaluateValueResult
EvrForValue(value) == [success |-> TRUE, value |-> value]
EvrForErrors(errors) == [success |-> FALSE, errors |-> errors]

\* the problems of one field of a draft against a schema, as a sequence
FieldErrors(schema, draft, f) ==
    IF f \in DOMAIN schema /\ f \notin DOMAIN draft
    THEN << [path |-> f, reason |-> "MISSING_REQUIRED_FIELD",
             expected |-> schema[f], got |-> "nothing"] >>
    ELSE IF f \notin DOMAIN schema /\ f \in DOMAIN draft
    THEN << [path |-> f, reason |-> "FIELD_NOT_DEFINED",
             expected |-> "nothing", got |-> draft[f].ty] >>
    ELSE IF f \in DOMAIN schema /\ draft[f].ty # schema[f]
    THEN << [path |-> f, reason |-> "RUNTIME_TYPE_MISMATCH",
             expected |-> schema[f], got |-> draft[f].ty] >>
    ELSE << >>

RECURSIVE ValidationErrors(_, _, _)
ValidationErrors(schema, draft, i) ==
    IF i > Len(FieldOrder)
    THEN << >>
    ELSE FieldErrors(schema, draft, FieldOrder[i])
            \o ValidationErrors(schema, draft, i + 1)

\* process_config({"config": schema}, {"config": draft})
process_config(schema_dict, config_dict) ==
    LET errors == ValidationErrors(schema_dict["config"],
                                   DictGet(config_dict, "config", EmptyDict), 1)
    IN  IF errors = << >>
        THEN EvrForValue(config_dict)
        ELSE EvrForErrors(errors)

Returned(v) == [raised |-> FALSE, value |-> v]
Raised(e) == [raised |-> TRUE, error |-> e]

\* with user_code_error_boundary(error_cls, msg_fn): <outcome of user code>
user_code_error_boundary(error_cls, msg, outcome) ==
    IF outcome.raised
    THEN Raised([type |-> error_cls, message |-> msg, cause |-> outcome.exc])
    ELSE Returned(outcome.value)

\* the error raised by a failed check.invariant / check.param_invariant /
\* check.inst_param
CheckFailed(description) ==
    [type |-> "DagsterInvalidDefinitionError",
     message |-> [text |-> description]]

\* check_user_facing_opt_config_param(config_schema, "config_schema")
check_user_facing_opt_config_param(config_schema) == config_schema

----------------------------------------------------------------------------
(* ConfiguredMixin *)

\* variant: the message is formatted with the definition's name
_get_user_code_error_str_lambda_name(self_def) ==
    [text |-> "The config mapping function on a configured {} has thrown",
     arg |-> self_def.name]

\* message "The config mapping function on a configured {} has thrown an
\* unexpected error during its execution.".format(self.__class__.__name__)
_get_user_code_error_str_lambda(self_def) ==
    [text |-> "The config mapping function on a configured {} has thrown",
     arg |-> self_def.cls]

\* config_fn inside _get_wrapped_config_mapping_fn: the user's callable, or
\* the stub that returns the static config and ignores its argument
config_fn(config_or_config_fn, config) ==
    IF callable(config_or_config_fn)
    THEN CallUserFunction(config_or_config_fn.fn_name, config)
    ELSE [raised |-> FALSE, value |-> config_or_config_fn.value]

\* variant: the invariant tests the truth value of config_schema, so an empty
\* schema passes
_get_wrapped_config_mapping_fn_truthy(self_id, config_or_config_fn, config_schema) ==
    IF ~callable(config_or_config_fn) /\ TruthySchema(config_schema)
    THEN Raised(CheckFailed(
            "When non-callable config is given, config_schema must be None"))
    ELSE Returned([self |-> self_id,
                   config_or_config_fn |-> config_or_config_fn])

\* the closure wrapped_config_mapping_fn, as the variables it captures
_get_wrapped_config_mapping_fn(self_id, config_or_config_fn, config_schema) ==
    IF ~callable(config_or_config_fn) /\ ~IsNone(config_schema)
    THEN Raised(CheckFailed(
            "When non-callable config is given, config_schema must be None"))
    ELSE Returned([self |-> self_id,
                   config_or_config_fn |-> config_or_config_fn])

\* variant: fn_name or new_name
_name_for_configured_node_fn_first(self_def, new_name, original_config_or_config_fn) ==
    LET fn_name == IF callable(original_config_or_config_fn)
                   THEN Some(original_config_or_config_fn.fn_name)
                   ELSE None
        name == IF TruthyName(fn_name) THEN fn_name ELSE new_name
    IN  IF ~TruthyName(name)
        THEN Raised([type |-> "DagsterInvalidDefinitionError",
                     message |-> [text |-> "Missing string param name while attempting to configure the node {node_name}",
                                  node_name |-> self_def.name]])
        ELSE Returned(Unwrap(name))

_name_for_configured_node(self_def, new_name, original_config_or_config_fn) ==
    LET fn_name == IF callable(original_config_or_config_fn)
                   THEN Some(original_config_or_config_fn.fn_name)
                   ELSE None
        name == IF TruthyName(new_name) THEN new_name ELSE fn_name
    IN  IF ~TruthyName(name)
        THEN Raised([type |-> "DagsterInvalidDefinitionError",
                     message |-> [text |-> "Missing string param name while attempting to configure the node {node_name}",
                                  node_name |-> self_def.name]])
        ELSE Returned(Unwrap(name))

\* SolidDefinition / CompositeSolidDefinition .copy_for_configured
copy_for_configured(self_def, name, wrapped_config_mapping_fn, config_schema, original_config_or_config_fn) ==
    LET n == _name_for_configured_node(self_def, name,
                                       original_config_or_config_fn)
    IN  IF n.raised
        THEN n
        ELSE Returned([cls |-> self_def.cls,
                       name |-> n.value,
                       config_schema |-> config_schema,
                       _configured_config_mapping_fn |->
                           Some(wrapped_config_mapping_fn)])

\* variant: the schema object is shared, so the definition being configured
\* ends up with the schema of the new one
configured_method_shared_schema(ds, self_id, config_or_config_fn, config_schema, name) ==
    LET w == _get_wrapped_config_mapping_fn(self_id, config_or_config_fn,
                                            config_schema)
        c == copy_for_configured(ds[self_id], name, w.value, config_schema,
                                 config_or_config_fn)
    IN  IF w.raised THEN [outcome |-> w, defs |-> ds]
        ELSE IF c.raised THEN [outcome |-> c, defs |-> ds]
        ELSE [outcome |-> Returned(Len(ds) + 1),
              defs |-> Append([ds EXCEPT ![self_id].config_schema =
                                             config_schema],
                              c.value)]

\* ConfiguredMixin.configured: the outcome and the heap after the call
configured_method(ds, self_id, config_or_config_fn, config_schema, name) ==
    LET w == _get_wrapped_config_mapping_fn(self_id, config_or_config_fn,
                                            config_schema)
        c == copy_for_configured(ds[self_id], name, w.value, config_schema,
                                 config_or_config_fn)
    IN  IF w.raised THEN [outcome |-> w, defs |-> ds]
        ELSE IF c.raised THEN [outcome |-> c, defs |-> ds]
        ELSE [outcome |-> Returned(Len(ds) + 1), defs |-> Append(ds, c.value)]

\* variant: a CallableNode is let through
_check_configurable_param_lax(configurable) ==
    IF configurable.kind \notin {"CallableNode", "ConfiguredMixin"}
    THEN Some(CheckFailed("Only the following types can be used with the configured method"))
    ELSE None

_check_configurable_param(configurable) ==
    IF configurable.kind = "CallableNode"
    THEN Some(CheckFailed("You have invoked configured on a CallableNode"))
    ELSE IF configurable.kind # "ConfiguredMixin"
    THEN Some(CheckFailed("Only the following types can be used with the configured method"))
    ELSE None

\* configured(configurable, config_schema, name=name)(config_or_config_fn)
configured(ds, configurable, config_schema, name, config_or_config_fn) ==
    LET bad == _check_configurable_param(configurable)
        schema == check_user_facing_opt_config_param(config_schema)
    IN  IF ~IsNone(bad)
        THEN [outcome |-> Raised(Unwrap(bad)), defs |-> ds]
        ELSE configured_method(ds, configurable.id, config_or_config_fn,
                               schema, name)

----------------------------------------------------------------------------
(* wrapped_config_mapping_fn and apply_config_mapping *)

\* the closure stored on a preconfigured definition
ClosureOf(ds, id) == Unwrap(ds[id]._configured_config_mapping_fn)

\* variant: mapped_config is the bare return value of config_fn
MapConfig_bare(ds, id, validated_and_resolved_config) ==
    LET closure == ClosureOf(ds, id)
    IN  user_code_error_boundary(
            "DagsterConfigMappingFunctionError",
            _get_user_code_error_str_lambda(ds[closure.self]),
            config_fn(closure.config_or_config_fn,
                      DictGet(validated_and_resolved_config,
                              "config", EmptyDict)))

\* the with-block of wrapped_config_mapping_fn: config_fn applied to
\* validated_and_resolved_config.get("config", {}) inside the error boundary;
\* the value returned is mapped_config
MapConfig(ds, id, validated_and_resolved_config) ==
    LET closure == ClosureOf(ds, id)
        out == user_code_error_boundary(
                  "DagsterConfigMappingFunctionError",
                  _get_user_code_error_str_lambda(ds[closure.self]),
                  config_fn(closure.config_or_config_fn,
                            DictGet(validated_and_resolved_config,
                                    "config", EmptyDict)))
    IN  IF out.raised THEN out ELSE Returned([config |-> out.value])

\* variant: the draft is validated against the schema of the new definition
\* instead of the schema of the definition that was configured
ValidateMapped_own_schema(ds, id, mapped_config) ==
    LET schema == IF TruthySchema(ds[id].config_schema)
                  THEN Unwrap(ds[id].config_schema)
                  ELSE EmptyDict
    IN  process_config([config |-> schema], mapped_config)

\* process_config({"config": self.config_schema or {}}, mapped_config)
ValidateMapped(ds, id, mapped_config) ==
    LET self_def == ds[ClosureOf(ds, id).self]
        schema == IF TruthySchema(self_def.config_schema)
                  THEN Unwrap(self_def.config_schema)
                  ELSE EmptyDict
    IN  process_config([config |-> schema], mapped_config)

\* apply_config_mapping as the function it computes: the closure of the
\* definition, then the recursive step on the definition the closure captured
RECURSIVE apply_config_mapping(_, _, _)
apply_config_mapping(ds, self_id, config) ==
    IF ~is_preconfigured(ds[self_id])
    THEN Returned(EvrForValue(config))
    ELSE
        LET mapped_config == MapConfig(ds, self_id, config)
            config_evr == ValidateMapped(ds, self_id, mapped_config.value)
        IN  IF mapped_config.raised THEN mapped_config
            ELSE IF config_evr.success
            THEN apply_config_mapping(ds, ClosureOf(ds, self_id).self,
                                      config_evr.value)
            ELSE Returned(config_evr)

----------------------------------------------------------------------------
(* State machine *)

Init ==
    /\ defs = InitialDefs
    /\ call = [op |-> "none"]
    /\ pc = "idle"
    /\ cur = 0
    /\ cfg = EmptyDict
    /\ mapped = EmptyDict
    /\ trace = << >>
    /\ result = None

Configurables ==
    {DefObj(i) : i \in DefIds} \cup {CallableNodeObj(i) : i \in DefIds}
        \cup {OtherObj}

ConfiguredCall(configurable, config_or_config_fn, config_schema, name) ==
    [op |-> "configured", configurable |-> configurable,
     config_or_config_fn |-> config_or_config_fn,
     config_schema |-> config_schema, name |-> name]

\* definition.configured(config_or_config_fn, config_schema, name)
ConfiguredMethod(self_id, config_or_config_fn, config_schema, name) ==
    /\ pc = "idle"
    /\ Len(defs) < Len(InitialDefs) + MaxConfigured
    /\ LET r == configured_method(defs, self_id, config_or_config_fn,
                                  config_schema, name)
       IN  /\ defs' = r.defs
           /\ result' = Some(r.outcome)
           /\ pc' = IF r.outcome.raised THEN "raised" ELSE "idle"
    /\ call' = ConfiguredCall(DefObj(self_id), config_or_config_fn,
                              config_schema, name)
    /\ trace' = << >>
    /\ UNCHANGED <<cur, cfg, mapped>>

\* configured(configurable, config_schema, name=name)(config_or_config_fn)
ConfiguredDecorator(configurable, config_schema, name, config_or_config_fn) ==
    /\ pc = "idle"
    /\ Len(defs) < Len(InitialDefs) + MaxConfigured
    /\ LET r == configured(defs, configurable, config_schema, name,
                           config_or_config_fn)
       IN  /\ defs' = r.defs
           /\ result' = Some(r.outcome)
           /\ pc' = IF r.outcome.raised THEN "raised" ELSE "idle"
    /\ call' = ConfiguredCall(configurable, config_or_config_fn,
                              config_schema, name)
    /\ trace' = << >>
    /\ UNCHANGED <<cur, cfg, mapped>>

\* variant: the base case returns what is under the "config" key
ApplyConfigMapping_unwraps(self_id, config) ==
    /\ pc = "idle"
    /\ call' = [op |-> "apply_config_mapping", entity |-> self_id,
                config |-> config]
    /\ trace' = << >>
    /\ IF ~is_preconfigured(defs[self_id])
       THEN /\ result' = Some(Returned(EvrForValue(
                                 DictGet(config, "config", EmptyDict))))
            /\ UNCHANGED <<pc, cur, cfg, mapped>>
       ELSE /\ result' = None
            /\ pc' = "config_fn"
            /\ cur' = self_id
            /\ cfg' = config
            /\ mapped' = EmptyDict
    /\ UNCHANGED defs

\* definition.apply_config_mapping(config): the base case returns at once,
\* otherwise control enters the definition's wrapped_config_mapping_fn
ApplyConfigMapping(self_id, config) ==
    /\ pc = "idle"
    /\ call' = [op |-> "apply_config_mapping", entity |-> self_id,
                config |-> config]
    /\ trace' = << >>
    /\ IF ~is_preconfigured(defs[self_id])
       THEN /\ result' = Some(Returned(EvrForValue(config)))
            /\ UNCHANGED <<pc, cur, cfg, mapped>>
       ELSE /\ result' = None
            /\ pc' = "config_fn"
            /\ cur' = self_id
            /\ cfg' = config
            /\ mapped' = EmptyDict
    /\ UNCHANGED defs

\* variant: the boundary swallows the user's exception and the closure
\* returns a failed EvaluateValueResult instead
InvokeConfigFn_returns_failure ==
    /\ pc = "config_fn"
    /\ LET mapped_config == MapConfig(defs, cur, cfg)
       IN  /\ trace' = Append(trace, [ev |-> "config_fn", layer |-> cur,
                                      out |-> mapped_config])
           /\ IF mapped_config.raised
              THEN /\ result' = Some(Returned(EvrForErrors(<< >>)))
                   /\ pc' = "idle"
                   /\ cur' = 0
                   /\ cfg' = EmptyDict
                   /\ mapped' = EmptyDict
              ELSE /\ mapped' = mapped_config.value
                   /\ pc' = "process_config"
                   /\ UNCHANGED <<cur, cfg, result>>
    /\ UNCHANGED <<defs, call>>

\* wrapped_config_mapping_fn, first half: check.dict_param passes (every
\* config that reaches a closure is a dict: the caller's validated config or
\* the value of a successful process_config), then the user's transformation
\* runs inside the error boundary
InvokeConfigFn ==
    /\ pc = "config_fn"
    /\ LET mapped_config == MapConfig(defs, cur, cfg)
       IN  /\ trace' = Append(trace, [ev |-> "config_fn", layer |-> cur,
                                      out |-> mapped_config])
           /\ IF mapped_config.raised
              THEN /\ result' = Some(mapped_config)
                   /\ pc' = "raised"
                   /\ cur' = 0
                   /\ cfg' = EmptyDict
                   /\ mapped' = EmptyDict
              ELSE /\ mapped' = mapped_config.value
                   /\ pc' = "process_config"
                   /\ UNCHANGED <<cur, cfg, result>>
    /\ UNCHANGED <<defs, call>>

\* variant: the validated config is returned without the recursive step
ProcessMappedConfig_no_recursion ==
    /\ pc = "process_config"
    /\ LET config_evr == ValidateMapped(defs, cur, mapped)
       IN  /\ trace' = Append(trace, [ev |-> "process_config", layer |-> cur,
                                      out |-> config_evr])
           /\ result' = Some(Returned(config_evr))
           /\ pc' = "idle"
           /\ cur' = 0
           /\ cfg' = EmptyDict
           /\ mapped' = EmptyDict
    /\ UNCHANGED <<defs, call>>

\* variant: config_evr.success is not tested, the recursive step always runs
ProcessMappedConfig_unchecked ==
    /\ pc = "process_config"
    /\ LET config_evr == ValidateMapped(defs, cur, mapped)
           self_id == ClosureOf(defs, cur).self
       IN  /\ trace' = Append(trace, [ev |-> "process_config", layer |-> cur,
                                      out |-> config_evr])
           /\ IF ~is_preconfigured(defs[self_id])
              THEN /\ result' = Some(Returned(EvrForValue(mapped)))
                   /\ pc' = "idle"
                   /\ cur' = 0
                   /\ cfg' = EmptyDict
                   /\ mapped' = EmptyDict
              ELSE /\ pc' = "config_fn"
                   /\ cur' = self_id
                   /\ cfg' = mapped
                   /\ mapped' = EmptyDict
                   /\ UNCHANGED result
    /\ UNCHANGED <<defs, call>>

\* wrapped_config_mapping_fn, second half: mapped_config is validated against
\* the schema of the definition that was configured; on success the recursive
\* step runs that definition's apply_config_mapping
ProcessMappedConfig ==
    /\ pc = "process_config"
    /\ LET config_evr == ValidateMapped(defs, cur, mapped)
           self_id == ClosureOf(defs, cur).self
       IN  /\ trace' = Append(trace, [ev |-> "process_config", layer |-> cur,
                                      out |-> config_evr])
           /\ IF ~config_evr.success
              THEN /\ result' = Some(Returned(config_evr))
                   /\ pc' = "idle"
                   /\ cur' = 0
                   /\ cfg' = EmptyDict
                   /\ mapped' = EmptyDict
              ELSE IF ~is_preconfigured(defs[self_id])
              THEN /\ result' = Some(Returned(EvrForValue(config_evr.value)))
                   /\ pc' = "idle"
                   /\ cur' = 0
                   /\ cfg' = EmptyDict
                   /\ mapped' = EmptyDict
              ELSE /\ pc' = "config_fn"
                   /\ cur' = self_id
                   /\ cfg' = config_evr.value
                   /\ mapped' = EmptyDict
                   /\ UNCHANGED result
    /\ UNCHANGED <<defs, call>>

Next ==
    \/ \E i \in DefIds, a \in ConfiguredArgs :
          ConfiguredMethod(i, a.config_or_config_fn, a.config_schema, a.name)
    \/ \E c \in Configurables, a \in ConfiguredArgs :
          ConfiguredDecorator(c, a.config_schema, a.name,
                              a.config_or_config_fn)
    \/ \E i \in DefIds, c \in RunConfigs : ApplyConfigMapping(i, c)
    \/ InvokeConfigFn
    \/ ProcessMappedConfig

Spec == Init /\ [][Next]_vars

----------------------------------------------------------------------------
(* The repository decorator (decorators/repository.py) *)

\* Python objects here are records [cls |-> class name, ...]; a list carries
\* the classes of its elements in order, a dict carries its set of keys

\* the keys named by the message of the dict branch of _Repository.__call__
VALID_REPOSITORY_DATA_DICT_KEYS ==
    {"pipelines", "partition_sets", "schedules", "jobs"}

\* the classes a class derives from
BasesOf(cls) ==
    IF cls \in {"ComplexRepositoryData", "CachingRepositoryData"}
    THEN {"RepositoryData"}
    ELSE {}

\* isinstance(obj, cls)
isinstance(obj, cls) == obj.cls = cls \/ cls \in BasesOf(obj.cls)

ElementClasses ==
    {"PipelineDefinition", "PartitionSetDefinition", "ScheduleDefinition",
     "SensorDefinition", "GraphDefinition", "SolidDefinition", "str"}

DictKeys ==
    {"pipelines", "partition_sets", "schedules", "jobs", "solids", "resources"}

ListOf(items) == [cls |-> "list", items |-> items]
DictOf(keys) == [cls |-> "dict", keys |-> keys]

\* what the decorated function may return
FnReturns ==
    {ListOf(items) :
        items \in UNION {[1..n -> ElementClasses] : n \in 0..MaxListLen}}
    \cup {DictOf(keys) : keys \in SUBSET DictKeys}
    \cup {[cls |-> "RepositoryData"], [cls |-> "ComplexRepositoryData"],
          [cls |-> "NoneType"],
          [cls |-> "tuple", items |-> <<"PipelineDefinition">>]}

\* the decorated function: its __name__ and the value it returns
Fn(returns) == [fn_name |-> "my_repository", returns |-> returns]

RepositoryNames == {None, Some(""), Some("my_repo")}
Descriptions == {None, Some("my description")}

\* the isinstance test on one element of the list
IsRepositoryMember(definition) ==
    \/ isinstance(definition, "PipelineDefinition")
    \/ isinstance(definition, "PartitionSetDefinition")
    \/ isinstance(definition, "ScheduleDefinition")
    \/ isinstance(definition, "SensorDefinition")
    \/ isinstance(definition, "GraphDefinition")

\* variant: the loop stops at the first bad element
RECURSIVE bad_definitions_first_only(_, _)
bad_definitions_first_only(items, i) ==
    IF i > Len(items)
    THEN << >>
    ELSE IF ~IsRepositoryMember([cls |-> items[i]])
    THEN << <<i - 1, items[i]>> >>
    ELSE bad_definitions_first_only(items, i + 1)

\* bad_definitions: (index, type) of every element that fails the test, from
\* position i of the list on; Python indices start at 0
RECURSIVE bad_definitions(_, _)
bad_definitions(items, i) ==
    IF i > Len(items)
    THEN << >>
    ELSE (IF ~IsRepositoryMember([cls |-> items[i]])
          THEN << <<i - 1, items[i]>> >>
          ELSE << >>) \o bad_definitions(items, i + 1)

\* CachingRepositoryData.from_list / from_dict
CachingRepositoryData_from(repository_definitions) ==
    [cls |-> "CachingRepositoryData", source |-> repository_definitions]

\* RepositoryDefinition(name=, description=, repository_data=)
RepositoryDefinition(name, description, repository_data) ==
    [cls |-> "RepositoryDefinition", name |-> name,
     description |-> description, repository_data |-> repository_data]

\* _Repository.__call__ on a decorator object with the given name and
\* description: the outcome, and the RepositoryDefinition when one is built
_Repository_call(self_name, self_description, fn) ==
    LET name == IF ~TruthyName(self_name) THEN fn.fn_name
                ELSE Unwrap(self_name)
        repository_definitions == fn.returns
        bad == bad_definitions(repository_definitions.items, 1)
        bad_keys == repository_definitions.keys
                        \ VALID_REPOSITORY_DATA_DICT_KEYS
        Built(repository_data) ==
            Returned(RepositoryDefinition(name, self_description,
                                          repository_data))
    IN  IF ~(\/ isinstance(repository_definitions, "list")
             \/ isinstance(repository_definitions, "dict")
             \/ isinstance(repository_definitions, "RepositoryData"))
        THEN Raised([type |-> "DagsterInvalidDefinitionError",
                     message |-> [text |-> "Bad return value of type {type_} from repository construction function",
                                  type_ |-> repository_definitions.cls]])
        ELSE IF isinstance(repository_definitions, "list")
        THEN IF bad # << >>
             THEN Raised([type |-> "DagsterInvalidDefinitionError",
                          message |-> [text |-> "Bad return value from repository construction function: all elements of list must be of type",
                                       got |-> bad]])
             ELSE Built(CachingRepositoryData_from(repository_definitions))
        ELSE IF isinstance(repository_definitions, "dict")
        THEN IF ~(repository_definitions.keys
                      \subseteq VALID_REPOSITORY_DATA_DICT_KEYS)
             THEN Raised([type |-> "DagsterInvalidDefinitionError",
                          message |-> [text |-> "Bad return value from repository construction function: dict must not contain keys other than",
                                       bad_keys |-> bad_keys]])
             ELSE Built(CachingRepositoryData_from(repository_definitions))
        ELSE Built(repository_definitions)

\* one application of the decorator; a RepositoryDefinition that is built
\* joins the definition objects
ApplyRepository(form, name, description, fn) ==
    /\ pc = "idle"
    /\ call.op = "none"
    /\ call' = [op |-> "repository", form |-> form, name |-> name,
                description |-> description, fn |-> fn]
    /\ LET r == _Repository_call(name, description, fn)
       IN  /\ result' = Some(IF r.raised THEN r
                             ELSE Returned(Len(defs) + 1))
           /\ defs' = IF r.raised THEN defs ELSE Append(defs, r.value)
           /\ pc' = IF r.raised THEN "raised" ELSE "idle"
    /\ UNCHANGED <<cur, cfg, mapped, trace>>

\* @repository directly on the function: repository(fn) finds its first
\* argument callable and applies _Repository() to it
RepositoryBare(fn) == ApplyRepository("bare", None, None, fn)

\* @repository(name=..., description=...) on the function
RepositoryWithArgs(name, description, fn) ==
    ApplyRepository("args", name, description, fn)

\* a module that defines one repository: nothing is built before the
\* decorator runs, and an application shares no state with any other
InitRepo ==
    /\ defs = << >>
    /\ call = [op |-> "none"]
    /\ pc = "idle"
    /\ cur = 0
    /\ cfg = EmptyDict
    /\ mapped = EmptyDict
    /\ trace = << >>
    /\ result = None

NextRepo ==
    \/ \E r \in FnReturns : RepositoryBare(Fn(r))
    \/ \E n \in RepositoryNames, d \in Descriptions, r \in FnReturns :
          RepositoryWithArgs(n, d, Fn(r))

SpecRepo == InitRepo /\ [][NextRepo]_vars

----------------------------------------------------------------------------
(* Vocabulary of the properties, read off the raw fields of the state *)

Running == pc = "config_fn" \/ pc = "process_config"
Ended == ~Running /\ ~IsNone(result)
Outcome == result[1]

ResolveCall == call.op = "apply_config_mapping"
ConfiguredCallEnded == call.op = "configured" /\ Ended
ResolveEnded == ResolveCall /\ Ended
ResolveReturned == ResolveEnded /\ ~Outcome.raised
ResolveSucceeded == ResolveReturned /\ Outcome.value.success
ResolveFailed == ResolveReturned /\ ~Outcome.value.success
ResolveRaised == ResolveEnded /\ Outcome.raised

Wrapped(ds, id) == ds[id]._configured_config_mapping_fn # << >>
\* the definition a wrapping definition was made from
Under(ds, id) == ds[id]._configured_config_mapping_fn[1].self
\* the transformation or static config a wrapping definition was made with
GivenTo(ds, id) == ds[id]._configured_config_mapping_fn[1].config_or_config_fn

\* the wrapping layers of a definition, outermost first, base excluded
RECURSIVE Layers(_, _)
Layers(ds, id) ==
    IF Wrapped(ds, id) THEN <<id>> \o Layers(ds, Under(ds, id)) ELSE << >>

\* the calls a complete traversal of the layers makes, in order
RECURSIVE CallsOf(_)
CallsOf(layers) ==
    IF layers = << >>
    THEN << >>
    ELSE << <<"config_fn", layers[1]>>, <<"process_config", layers[1]>> >>
            \o CallsOf(Tail(layers))

Observed == [k \in 1..Len(trace) |-> <<trace[k].ev, trace[k].layer>>]

IsPrefix(a, b) == Len(a) <= Len(b) /\ SubSeq(b, 1, Len(a)) = a

\* the fields a schema declares; an absent schema declares none
Declared(schema) == IF schema = << >> THEN << >> ELSE schema[1]
\* a draft conforms to a schema: same fields, each of the declared type
Conforms(schema, draft) ==
    /\ DOMAIN draft = DOMAIN Declared(schema)
    /\ \A f \in DOMAIN draft : draft[f].ty = Declared(schema)[f]

\* what the transformation of a layer makes of an incoming config
DraftOf(ds, id, config) ==
    LET arg == IF "config" \in DOMAIN config THEN config["config"] ELSE << >>
        given == GivenTo(ds, id)
    IN  IF given.callable THEN add_dev(arg)
        ELSE [raised |-> FALSE, value |-> given.value]

----------------------------------------------------------------------------
(* C1 *)

----------------------------------------------------------------------------
(* C2 *)

\* C2: when process_config rejects the draft of a layer, the call ends right
\* there, that failure is the value the outermost apply_config_mapping
\* returns (nothing is raised), its errors are those of the draft against the
\* schema of the definition that layer wraps, and no config_fn or
\* process_config of a layer further inside has run.
C2_FailureBubblesUp ==
    ResolveCall =>
        \A k \in 1..Len(trace) :
            (trace[k].ev = "process_config" /\ ~trace[k].out.success) =>
                /\ k = Len(trace)
                /\ ResolveFailed
                /\ Outcome.value = trace[k].out
                /\ ~Conforms(defs[Under(defs, trace[k].layer)].config_schema,
                             trace[k - 1].out.value["config"])
                /\ Outcome.value.errors =
                       ValidationErrors(
                           Declared(defs[Under(defs, trace[k].layer)]
                                        .config_schema),
                           trace[k - 1].out.value["config"], 1)
                /\ \A j \in 1..Len(trace) :
                       trace[j].layer \in
                           {Layers(defs, call.entity)[i] : i \in 1..(k \div 2)}

C2_Witness ==
    /\ ResolveFailed
    /\ Len(Layers(defs, call.entity)) = 2
    /\ Len(trace) = 2

----------------------------------------------------------------------------
(* C3 *)

\* C3: apply_config_mapping on a base definition returns a success carrying
\* the config it was given, and calls no config_fn and no process_config.
C3_BaseIsIdentity ==
    (ResolveEnded /\ ~Wrapped(defs, call.entity)) =>
        /\ Outcome = [raised |-> FALSE,
                      value |-> [success |-> TRUE, value |-> call.config]]
        /\ trace = << >>

C3_Witness ==
    /\ ResolveEnded
    /\ ~Wrapped(defs, call.entity)
    /\ call.config # << >>

----------------------------------------------------------------------------
(* C4 *)

\* a definition made by one wrap of a base definition
SingleWrap(ds, id) == Wrapped(ds, id) /\ ~Wrapped(ds, Under(ds, id))

\* C4: for one wrap of a base definition with a transformation that does not
\* raise, apply_config_mapping succeeds exactly when the transformation's
\* draft conforms to the schema of the wrapped definition, and the value it
\* then returns is what the wrapped definition returns for the validated
\* draft.
C4_SingleWrap ==
    (ResolveEnded /\ SingleWrap(defs, call.entity)
        /\ ~DraftOf(defs, call.entity, call.config).raised) =>
        LET draft == DraftOf(defs, call.entity, call.config).value
            inner == Under(defs, call.entity)
        IN  /\ ~Outcome.raised
            /\ Outcome.value.success <=>
                   Conforms(defs[inner].config_schema, draft)
            /\ Outcome.value.success =>
                   Outcome = apply_config_mapping(defs, inner,
                                                  [config |-> draft])

C4_Witness ==
    /\ ResolveSucceeded
    /\ SingleWrap(defs, call.entity)
    /\ GivenTo(defs, call.entity).callable

----------------------------------------------------------------------------
(* C5 *)

\* the layer whose config_fn ran last
LastLayer == trace[Len(trace)].layer
Nested == Len(Layers(defs, call.entity)) >= 2

----------------------------------------------------------------------------
(* C6 *)

AcmeRunConfig == [config |-> [bucket_prefix |-> StrV("acme")]]

\* the example: add_dev with schema {bucket_prefix: str} wrapped around a base
\* definition, resolved with {"config": {"bucket_prefix": "acme"}}
ExampleOn(base) ==
    /\ ResolveEnded
    /\ call.config = AcmeRunConfig
    /\ SingleWrap(defs, call.entity)
    /\ Under(defs, call.entity) = base
    /\ GivenTo(defs, call.entity) = [callable |-> TRUE, fn_name |-> "add_dev"]
    /\ defs[call.entity].config_schema = <<[bucket_prefix |-> "str"]>>

\* C6 as stated: the example on the base definition with schema {n: int}
\* returns Success({"n": "acme-dev"}), and whenever the wrapped definition is
\* a base definition the success value is the transformation's draft itself.
C6_DraftIsValue ==
    /\ ExampleOn(1) =>
           Outcome = [raised |-> FALSE,
                      value |-> [success |-> TRUE,
                                 value |-> [n |-> StrV("acme-dev")]]]
    /\ (ResolveSucceeded /\ SingleWrap(defs, call.entity)) =>
           Outcome.value.value =
               DraftOf(defs, call.entity, call.config).value

\* C6 as amended: on the base definition with schema {n: int} the example
\* returns a failure with one error, a type mismatch on n (str given, int
\* expected); on a base definition with schema {n: str} it returns a success
\* whose value is {"config": {"n": "acme-dev"}}; and whenever the wrapped
\* definition is a base definition, the success value is the draft under the
\* key "config".
C6_DraftUnderConfigKey ==
    /\ ExampleOn(1) =>
           Outcome = [raised |-> FALSE,
                      value |-> [success |-> FALSE,
                                 errors |-> << [path |-> "n",
                                     reason |-> "RUNTIME_TYPE_MISMATCH",
                                     expected |-> "int", got |-> "str"] >>]]
    /\ ExampleOn(2) =>
           Outcome = [raised |-> FALSE,
                      value |-> [success |-> TRUE,
                                 value |-> [config |->
                                     [n |-> StrV("acme-dev")]]]]
    /\ (ResolveSucceeded /\ SingleWrap(defs, call.entity)) =>
           Outcome.value.value =
               [config |-> DraftOf(defs, call.entity, call.config).value]

C6_Witness == ExampleOn(2) /\ ResolveSucceeded

----------------------------------------------------------------------------
(* C7 *)

\* a step that is a call of configured
ConfiguredStep == pc = "idle" /\ call'.op = "configured"
IsDefinitionError(outcome) ==
    outcome.raised /\ outcome.error.type = "DagsterInvalidDefinitionError"

StaticWithSchema(c) ==
    /\ c.configurable.kind = "ConfiguredMixin"
    /\ ~c.config_or_config_fn.callable
    /\ c.config_schema # << >>

CallableOnDefinition(c) ==
    /\ c.configurable.kind = "ConfiguredMixin"
    /\ c.config_or_config_fn.callable

----------------------------------------------------------------------------
(* C8 *)

\* C8: configured on a CallableNode, or on an object that is not a
\* ConfiguredMixin, ends in a DagsterInvalidDefinitionError; no definition is
\* built and no transformation is called.
C8_OnlyDefinitionsAreConfigurable ==
    /\ [](ConfiguredCallEnded /\ call.configurable.kind # "ConfiguredMixin" =>
             IsDefinitionError(Outcome) /\ trace = << >>)
    /\ [][ConfiguredStep /\ call'.configurable.kind # "ConfiguredMixin" =>
             defs' = defs]_vars

C8_Witness ==
    /\ ConfiguredCallEnded
    /\ call.configurable.kind = "CallableNode"
    /\ call.config_or_config_fn.callable
    /\ Outcome.raised

----------------------------------------------------------------------------
(* C9 *)

\* C9: no call changes a definition that exists: configured appends one new
\* definition made from the one it was called on and leaves the others as
\* they were, so apply_config_mapping on an existing definition gives the
\* same result after the call as before it.
C9_DefinitionsAreImmutable ==
    [][ /\ Len(defs') >= Len(defs)
        /\ \A i \in DefIds : defs'[i] = defs[i]
        /\ defs' # defs =>
              /\ Len(defs') = Len(defs) + 1
              /\ call'.op = "configured"
              /\ result' = <<[raised |-> FALSE, value |-> Len(defs')]>>
              /\ Wrapped(defs', Len(defs'))
              /\ Under(defs', Len(defs')) = call'.configurable.id
              /\ \A i \in DefIds, c \in RunConfigs :
                    apply_config_mapping(defs', i, c) =
                        apply_config_mapping(defs, i, c)
      ]_vars

\* a definition that has been wrapped is resolved on its own afterwards
C9_Witness ==
    /\ ResolveSucceeded
    /\ Wrapped(defs, call.entity)
    /\ \E i \in DefIds : Wrapped(defs, i) /\ Under(defs, i) = call.entity

----------------------------------------------------------------------------
(* C10 *)

NameGiven(c) == c.name # << >> /\ c.name[1] # ""

\* a call of configured that gets as far as naming the new definition
ReachesNaming(c) ==
    /\ c.configurable.kind = "ConfiguredMixin"
    /\ c.config_or_config_fn.callable \/ c.config_schema = << >>

----------------------------------------------------------------------------
(* C12 *)

\* the config the k-th call of the traversal was made with
InputAt(k) == IF k = 1 THEN call.config ELSE trace[k - 1].out.value

\* the k-th call is a transformation, and it raises on its input
RaisesAt(k) ==
    /\ trace[k].ev = "config_fn"
    /\ DraftOf(defs, trace[k].layer, InputAt(k)).raised

\* C12: during apply_config_mapping the transformation of a layer is called
\* at most once, and when it raises the call ends there: it is the last call
\* of the traversal (no validation, no transformation of a layer further
\* inside follows), and apply_config_mapping ends by raising the error that
\* wraps the user's exception, not by returning an EvaluateValueResult.
C12_RaiseIsFatal ==
    ResolveCall =>
        /\ \A j, k \in 1..Len(trace) :
               (trace[j].ev = "config_fn" /\ trace[k].ev = "config_fn"
                   /\ trace[j].layer = trace[k].layer) => j = k
        /\ \A k \in 1..Len(trace) :
               RaisesAt(k) =>
                   /\ k = Len(trace)
                   /\ pc = "raised"
                   /\ ResolveRaised
                   /\ Outcome.error.type = "DagsterConfigMappingFunctionError"
                   /\ Outcome.error.cause =
                          DraftOf(defs, trace[k].layer, InputAt(k)).exc
        /\ ResolveRaised => RaisesAt(Len(trace))

\* the outermost transformation of a nested chain raises and no inner layer
\* has run
C12_Witness ==
    /\ ResolveRaised
    /\ Len(Layers(defs, call.entity)) >= 2
    /\ Len(trace) = 1
    /\ Outcome.error.cause = "TypeError"

----------------------------------------------------------------------------
(* C11 *)

RepositoryCallEnded == call.op = "repository" /\ result # << >>

GoodMembers ==
    {"PipelineDefinition", "PartitionSetDefinition", "ScheduleDefinition",
     "SensorDefinition", "GraphDefinition"}

\* the return values the decorator accepts
Acceptable(v) ==
    \/ v.cls = "list" /\ \A i \in 1..Len(v.items) : v.items[i] \in GoodMembers
    \/ v.cls = "dict"
          /\ v.keys \subseteq {"pipelines", "partition_sets", "schedules",
                               "jobs"}
    \/ v.cls \in {"RepositoryData", "ComplexRepositoryData"}

\* the 0-based indices of the elements of a list that are not members
Offending(items) == {i - 1 : i \in {j \in 1..Len(items) :
                                        items[j] \notin GoodMembers}}

====
